---- MODULE Spec2Model ----
(***************************************************************************)
(* Model of src/app.py: the FastAPI "Programming Joke Generator API".      *)
(*                                                                         *)
(* The process reads AUTH_KEY once, when the module is loaded, into the    *)
(* global API_KEY.  Four GET routes are served.  Two of them ("/joke" and  *)
(* "/jokes") declare the dependency Security(verify_api_key), which itself *)
(* depends on Security(api_key_header); the framework resolves it before   *)
(* the route's body, and the event loop may interleave other requests      *)
(* between the resolution of the dependency and the body.  The body of     *)
(* each route has no await in it and so runs as one step.                  *)
(*                                                                         *)
(* An optional string (Python's Optional[str]) is a sequence of length at  *)
(* most one: None is << >> and the string s is <<s>>.                      *)
(***************************************************************************)
EXTENDS Integers, Sequences, FiniteSets, Bags, TLC

\* Number of requests the server holds in flight at once.
MaxInFlight == 2

None == << >>
Some(s) == <<s>>

\* The second argument of os.getenv.
DEFAULT_API_KEY == "your-secret-api-key-12345"

\* Values the AUTH_KEY environment variable takes: unset, set to the empty
\* string, set to a deployment's key.
EnvValues == {None, Some(""), Some("prod-key")}

\* Values of the X-API-Key header a client sends: no header, an empty
\* value, the default key, a deployment's key, a key no configuration uses.
HeaderValues ==
    {None, Some(""), Some(DEFAULT_API_KEY), Some("prod-key"), Some("wrong")}

Paths == {"/", "/joke", "/jokes", "/health"}

\* The routes whose signature carries Security(verify_api_key).
Protected == {"/joke", "/jokes"}

VARIABLES
    environ,       \* os.environ's AUTH_KEY, now
    boot_environ,  \* os.environ's AUTH_KEY when the module was loaded
    API_KEY,       \* the module global API_KEY
    inflight       \* the bag of requests received and not yet sent back

vars == <<environ, boot_environ, API_KEY, inflight>>

(***************************************************************************)
(* A request in flight is a record:                                        *)
(*   pc      "deps" (dependencies to resolve), "handler" (the route's body *)
(*           to run) or "done" (answered, response not yet written)        *)
(*   path    the route it matched                                          *)
(*   header  its X-API-Key header, an optional string                      *)
(*   auth    what verify_api_key returned or raised for it                 *)
(*   jokes   the handler's local variable jokes, None before it is set     *)
(*   calls   the functions of app.py run for it, in order                  *)
(*   resp    the responses produced for it, in order                       *)
(* Requests carry no identity of their own, so those in flight form a bag. *)
(***************************************************************************)
Requests == BagToSet(inflight)

\* The bag with request q replaced by request q2.
Becomes(q, q2) == (inflight (-) SetToBag({q})) (+) SetToBag({q2})

----------------------------------------------------------------------------
(* Pure functions of app.py *)

\* os.getenv(name, default) on an environment whose value for name is env.
os_getenv(env, default) == IF env = None THEN default ELSE env[1]

\* APIKeyHeader(name=API_KEY_NAME, auto_error=False): the header's value,
\* or None when the header is absent or its value is empty (the class tests
\* "if not api_key").
api_key_header(h) == IF h = None \/ h[1] = "" THEN None ELSE h

Raise(code, detail) ==
    [raised |-> TRUE, status_code |-> code, detail |-> detail]

Return(v) == [raised |-> FALSE, value |-> v]

NotChecked == [raised |-> FALSE, value |-> None]

\* Mutants of verify_api_key.
verify_api_key_swapped(api_key) ==
    IF api_key = None
    THEN Raise(403, "Invalid API Key.")
    ELSE IF api_key[1] # API_KEY
         THEN Raise(401, "Missing API Key. Please provide X-API-Key header.")
         ELSE Return(api_key)

verify_api_key_getenv(api_key) ==
    IF api_key = None
    THEN Raise(401, "Missing API Key. Please provide X-API-Key header.")
    ELSE IF api_key[1] # os_getenv(environ, DEFAULT_API_KEY)
         THEN Raise(403, "Invalid API Key.")
         ELSE Return(api_key)

\* A key is refused while another request in flight has been let in.
verify_api_key_throttled(api_key) ==
    IF api_key = None
    THEN Raise(401, "Missing API Key. Please provide X-API-Key header.")
    ELSE IF \/ api_key[1] # API_KEY
            \/ \E q \in Requests : Len(q.calls) > 0 /\ ~q.auth.raised
         THEN Raise(403, "Invalid API Key.")
         ELSE Return(api_key)

verify_api_key_422(api_key) ==
    IF api_key = None
    THEN Raise(422, "Missing API Key. Please provide X-API-Key header.")
    ELSE IF api_key[1] # API_KEY
         THEN Raise(403, "Invalid API Key.")
         ELSE Return(api_key)

verify_api_key(api_key) ==
    IF api_key = None
    THEN Raise(401, "Missing API Key. Please provide X-API-Key header.")
    ELSE IF api_key[1] # API_KEY
         THEN Raise(403, "Invalid API Key.")
         ELSE Return(api_key)

JOKES ==
    << "Why do programmers prefer dark mode? Because light attracts bugs!",
       "How do you comfort a JavaScript bug? You console it!",
       "Why did the programmer quit his job? He didn't get arrays!",
       "What's a programmer's favorite hangout place? Foo Bar!",
       "Why do Python programmers prefer snakes? Because they're great at wrapping things up!",
       "How many programmers does it take to change a light bulb? None, that's a hardware problem!",
       "Why did the developer go broke? Because he used up all his cache!",
       "What do you call a programmer from Finland? Nerdic!",
       "Why don't programmers like nature? It has too many bugs!",
       "What's the object-oriented way to become wealthy? Inheritance!",
       "Why did the programmer get stuck in the shower? The instructions said: 'Lather, Rinse, Repeat.'",
       "How do you know if a programmer is an extrovert? They look at YOUR shoes when talking to you!",
       "Why do Java developers wear glasses? Because they can't C#!",
       "What's a programmer's favorite snack? Cookies! (The web kind)",
       "Why did the SQL query break up with the database? There was no connection!",
       "What do you call a programmer who doesn't comment code? A future job applicant!",
       "Why do programmers always mix up Halloween and Christmas? Because Oct 31 == Dec 25!",
       "What's a computer's favorite beat? An algo-rhythm!",
       "Why did the developer go to the doctor? Because he had a case of the runs (infinite loops)!",
       "What's a programmer's favorite type of music? Algo-rhythm and blues!",
       "Why do programmers prefer dark mode? Because light attracts bugs!",
       "How do you comfort a JavaScript bug? You console it!",
       "Why did the programmer quit his job? He didn't get arrays!",
       "What's a programmer's favorite hangout place? Foo Bar!" >>

\* Mutants of get_jokes: a list shared between requests, from which each
\* answered request has taken its joke; and an empty list.
get_jokes_shared ==
    SubSeq(JOKES, 1,
           Len(JOKES) - Cardinality({q \in Requests : q.pc = "done"}))

get_jokes_empty == << >>

get_jokes == JOKES

Elements(s) == {s[i] : i \in 1..Len(s)}

HTTPResponse(code, body) == [status |-> code, body |-> body]

\* What the framework answers when a route's body raises.
InternalServerError == HTTPResponse(500, [detail |-> "Internal Server Error"])

----------------------------------------------------------------------------
(* The process *)

Init ==
    /\ environ \in EnvValues
    /\ boot_environ = environ
    /\ API_KEY = os_getenv(environ, DEFAULT_API_KEY)
    /\ inflight = EmptyBag

\* The environment variable is set, changed or unset while the process runs.
SetEnv(v) ==
    /\ v # environ
    /\ environ' = v
    /\ UNCHANGED <<boot_environ, API_KEY, inflight>>

\* The listener receives GET p with X-API-Key header h and the router
\* matches it: a protected route has its dependency resolved first.
Receive(p, h) ==
    /\ BagCardinality(inflight) < MaxInFlight
    /\ inflight' = inflight (+) SetToBag({
           [pc |-> IF p \in Protected THEN "deps" ELSE "handler",
            path |-> p, header |-> h, auth |-> NotChecked, jokes |-> None,
            calls |-> << >>, resp |-> << >>]})
    /\ UNCHANGED <<environ, boot_environ, API_KEY>>

\* Mutant of Security_verify_api_key: the exception is swallowed and the
\* route's body runs all the same.
Security_verify_api_key_swallow(q) ==
    /\ q.pc = "deps"
    /\ inflight' = Becomes(q,
           [q EXCEPT !.auth = verify_api_key(api_key_header(q.header)),
                     !.calls = Append(@, "verify_api_key"),
                     !.pc = "handler"])
    /\ UNCHANGED <<environ, boot_environ, API_KEY>>

\* The dependency Security(verify_api_key) of a protected route: an
\* HTTPException it raises becomes the response, and the body never runs.
Security_verify_api_key(q) ==
    /\ q.pc = "deps"
    /\ LET res == verify_api_key(api_key_header(q.header)) IN
       inflight' = Becomes(q,
           IF res.raised
           THEN [q EXCEPT !.auth = res,
                          !.calls = Append(@, "verify_api_key"),
                          !.resp = Append(@, HTTPResponse(res.status_code,
                                                [detail |-> res.detail])),
                          !.pc = "done"]
           ELSE [q EXCEPT !.auth = res,
                          !.calls = Append(@, "verify_api_key"),
                          !.pc = "handler"])
    /\ UNCHANGED <<environ, boot_environ, API_KEY>>

root(q) ==
    /\ q.pc = "handler"
    /\ q.path = "/"
    /\ inflight' = Becomes(q,
           [q EXCEPT !.calls = Append(@, "root"),
                     !.resp = Append(@, HTTPResponse(200,
                        [message |->
                             "Welcome to the Programming Joke Generator API!",
                         endpoints |->
                             ("/joke" :> "Get a random joke (requires API key)"
                              @@ "/jokes" :> "Get all jokes (requires API key)"
                              @@ "/health" :> "Health check (public)"
                              @@ "/docs" :> "Interactive API documentation"),
                         authentication |->
                             "Use X-API-Key header for protected endpoints"])),
                     !.pc = "done"])
    /\ UNCHANGED <<environ, boot_environ, API_KEY>>

\* Mutant of get_random_joke: the count is that of the jokes returned.
get_random_joke_one(q) ==
    /\ q.pc = "handler"
    /\ q.path = "/joke"
    /\ \E i \in 1..Len(get_jokes) :
          inflight' = Becomes(q,
              [q EXCEPT !.calls = Append(@, "get_random_joke"),
                        !.jokes = Some(get_jokes),
                        !.resp = Append(@, HTTPResponse(200,
                            [joke |-> get_jokes[i], total_jokes |-> 1])),
                        !.pc = "done"])
    /\ UNCHANGED <<environ, boot_environ, API_KEY>>

\* random.choice raises IndexError on an empty sequence, which the
\* framework answers with 500; otherwise it returns any one of the elements.
get_random_joke(q) ==
    /\ q.pc = "handler"
    /\ q.path = "/joke"
    /\ LET js == get_jokes
           ran == [q EXCEPT !.calls = Append(@, "get_random_joke"),
                            !.jokes = Some(js),
                            !.pc = "done"] IN
       IF Len(js) = 0
       THEN inflight' = Becomes(q,
                [ran EXCEPT !.resp = Append(@, InternalServerError)])
       ELSE \E i \in 1..Len(js) :
                inflight' = Becomes(q,
                    [ran EXCEPT !.resp = Append(@, HTTPResponse(200,
                        [joke |-> js[i], total_jokes |-> Len(js)]))])
    /\ UNCHANGED <<environ, boot_environ, API_KEY>>

\* Mutant of get_all_jokes: the repeated entries are dropped.
get_all_jokes_distinct(q) ==
    /\ q.pc = "handler"
    /\ q.path = "/jokes"
    /\ LET js == get_jokes
           ds == SelectSeq([i \in 1..Len(js) |-> <<i, js[i]>>],
                     LAMBDA e : \A k \in 1..(e[1] - 1) : js[k] # e[2])
           out == [i \in 1..Len(ds) |-> ds[i][2]] IN
       inflight' = Becomes(q,
           [q EXCEPT !.calls = Append(@, "get_all_jokes"),
                     !.jokes = Some(js),
                     !.resp = Append(@, HTTPResponse(200,
                         [jokes |-> out, total_jokes |-> Len(out)])),
                     !.pc = "done"])
    /\ UNCHANGED <<environ, boot_environ, API_KEY>>

get_all_jokes(q) ==
    /\ q.pc = "handler"
    /\ q.path = "/jokes"
    /\ LET js == get_jokes IN
       inflight' = Becomes(q,
           [q EXCEPT !.calls = Append(@, "get_all_jokes"),
                     !.jokes = Some(js),
                     !.resp = Append(@, HTTPResponse(200,
                         [jokes |-> js, total_jokes |-> Len(js)])),
                     !.pc = "done"])
    /\ UNCHANGED <<environ, boot_environ, API_KEY>>

\* Mutant of health_check: the route declares the dependency too.
health_check_secured(q) ==
    /\ q.pc = "handler"
    /\ q.path = "/health"
    /\ LET res == verify_api_key(api_key_header(q.header)) IN
       inflight' = Becomes(q,
           IF res.raised
           THEN [q EXCEPT !.auth = res,
                          !.calls = Append(@, "verify_api_key"),
                          !.resp = Append(@, HTTPResponse(res.status_code,
                                                [detail |-> res.detail])),
                          !.pc = "done"]
           ELSE [q EXCEPT !.auth = res,
                          !.calls = @ \o <<"verify_api_key", "health_check">>,
                          !.resp = Append(@, HTTPResponse(200,
                              [status |-> "healthy",
                               service |-> "Programming Joke Generator API"])),
                          !.pc = "done"])
    /\ UNCHANGED <<environ, boot_environ, API_KEY>>

health_check(q) ==
    /\ q.pc = "handler"
    /\ q.path = "/health"
    /\ inflight' = Becomes(q,
           [q EXCEPT !.calls = Append(@, "health_check"),
                     !.resp = Append(@, HTTPResponse(200,
                         [status |-> "healthy",
                          service |-> "Programming Joke Generator API"])),
                     !.pc = "done"])
    /\ UNCHANGED <<environ, boot_environ, API_KEY>>

\* The response is written to the client and the request's frame is gone.
Send(q) ==
    /\ q.pc = "done"
    /\ inflight' = inflight (-) SetToBag({q})
    /\ UNCHANGED <<environ, boot_environ, API_KEY>>

Next ==
    \/ \E v \in EnvValues : SetEnv(v)
    \/ \E p \in Paths, h \in HeaderValues : Receive(p, h)
    \/ \E q \in Requests : Security_verify_api_key(q)
    \/ \E q \in Requests : root(q)
    \/ \E q \in Requests : get_random_joke(q)
    \/ \E q \in Requests : get_all_jokes(q)
    \/ \E q \in Requests : health_check(q)
    \/ \E q \in Requests : Send(q)

Spec == Init /\ [][Next]_vars

----------------------------------------------------------------------------
(* Properties *)

MISSING_DETAIL == "Missing API Key. Please provide X-API-Key header."

INVALID_DETAIL == "Invalid API Key."

\* Request q has been through the credential check.
Checked(q) == q.path \in Protected /\ q.pc \in {"handler", "done"}

\* Request q has been answered with exactly this one response.
Answered(q, code) ==
    q.pc = "done" /\ Len(q.resp) = 1 /\ q.resp[1].status = code

FailedWith(q, code, detail) ==
    Answered(q, code) /\ q.resp[1].body = [detail |-> detail]

LetIn(q) ==
    /\ ~q.auth.raised
    /\ \A i \in 1..Len(q.resp) : q.resp[i].status \notin {401, 403}

JokeFields == {"joke", "jokes", "total_jokes"}

\* C1 as stated: an absent header gives 401 naming X-API-Key, a present
\* header with any value other than the secret gives 403 "invalid", and a
\* header equal to the secret passes.
C1_Original ==
    \A q \in Requests : Checked(q) =>
        /\ q.header = None => FailedWith(q, 401, MISSING_DETAIL)
        /\ (q.header # None /\ q.header[1] # API_KEY)
               => FailedWith(q, 403, INVALID_DETAIL)
        /\ (q.header # None /\ q.header[1] = API_KEY) => LetIn(q)

\* C1, amended: an absent or empty header gives 401 naming X-API-Key; a
\* non-empty header other than the secret gives 403 "invalid"; a non-empty
\* header equal to the secret passes.  Never 403 for the first case, never
\* 401 for the second.
C1_CheckOrder ==
    \A q \in Requests : Checked(q) =>
        /\ (q.header = None \/ q.header = Some(""))
               => FailedWith(q, 401, MISSING_DETAIL)
        /\ (q.header # None /\ q.header[1] # "" /\ q.header[1] # API_KEY)
               => FailedWith(q, 403, INVALID_DETAIL)
        /\ (q.header # None /\ q.header[1] # "" /\ q.header[1] = API_KEY)
               => LetIn(q)

\* One request without the header is answered 401 and one with a wrong key
\* is answered 403.
C1_Witness ==
    \E q1, q2 \in Requests :
        /\ Checked(q1) /\ q1.header = None /\ Answered(q1, 401)
        /\ Checked(q2) /\ q2.header # None /\ q2.header[1] # ""
        /\ Answered(q2, 403)

\* C2: when the credential check fails on a protected route the route's
\* body never runs, the one response carries the check's status code (401
\* or 403) and detail, and it has no joke, jokes or total_jokes field.
C2_FailedCheckNoBody ==
    \A q \in Requests : q.auth.raised =>
        /\ q.path \in Protected
        /\ q.calls = <<"verify_api_key">>
        /\ q.jokes = None
        /\ q.auth.status_code \in {401, 403}
        /\ FailedWith(q, q.auth.status_code, q.auth.detail)
        /\ DOMAIN q.resp[1].body \cap JokeFields = {}

C2_Witness ==
    \E q1, q2 \in Requests :
        /\ q1.path = "/joke" /\ q1.auth.raised /\ Answered(q1, 401)
        /\ q2.path = "/jokes" /\ q2.auth.raised /\ Answered(q2, 403)

\* The body of a successful GET /joke.
JokeBodyOk(b) ==
    /\ DOMAIN b = {"joke", "total_jokes"}
    /\ b.joke \in Elements(JOKES)
    /\ b.total_jokes = Len(JOKES)
    /\ b.total_jokes # 1
    /\ b.total_jokes # Cardinality(Elements(JOKES))

\* C3 as stated: GET /joke with the header equal to the secret is answered
\* 200 with a joke of the store and the store's length.
C3_Original ==
    \A q \in Requests :
        (q.pc = "done" /\ q.path = "/joke" /\ q.header = Some(API_KEY))
            => Answered(q, 200) /\ JokeBodyOk(q.resp[1].body)

\* C3, amended: GET /joke with a non-empty header equal to the secret is
\* answered 200 with {joke, total_jokes}, joke an entry of the store and
\* total_jokes the number of entries of the store, duplicates counted.
C3_JokeOk ==
    \A q \in Requests :
        (/\ q.pc = "done" /\ q.path = "/joke"
         /\ q.header = Some(API_KEY) /\ API_KEY # "")
            => Answered(q, 200) /\ JokeBodyOk(q.resp[1].body)

\* Two requests with the right key, answered with different entries, one
\* of them an entry the store holds twice.
C3_Witness ==
    \E q1, q2 \in Requests :
        /\ \A q \in {q1, q2} :
              /\ q.path = "/joke" /\ q.header = Some(API_KEY)
              /\ Answered(q, 200)
        /\ q1.resp[1].body.joke = JOKES[1]
        /\ q2.resp[1].body.joke = JOKES[20]

\* The body of a successful GET /jokes.
JokesBodyOk(b) ==
    /\ DOMAIN b = {"jokes", "total_jokes"}
    /\ b.jokes = JOKES
    /\ b.jokes[21] = b.jokes[1]
    /\ b.total_jokes = Len(b.jokes)

\* C4 as stated: GET /jokes with the header equal to the secret is
\* answered 200 with the store's sequence and its length.
C4_Original ==
    \A q \in Requests :
        (q.pc = "done" /\ q.path = "/jokes" /\ q.header = Some(API_KEY))
            => Answered(q, 200) /\ JokesBodyOk(q.resp[1].body)

\* C4, amended: GET /jokes with a non-empty header equal to the secret is
\* answered 200 with {jokes, total_jokes}, jokes the store's sequence in
\* order with its duplicates, total_jokes the length of jokes.
C4_JokesOk ==
    \A q \in Requests :
        (/\ q.pc = "done" /\ q.path = "/jokes"
         /\ q.header = Some(API_KEY) /\ API_KEY # "")
            => Answered(q, 200) /\ JokesBodyOk(q.resp[1].body)

C4_Witness ==
    \E q \in Requests :
        /\ q.path = "/jokes" /\ q.header = Some(API_KEY)
        /\ Answered(q, 200)
        /\ Len(q.resp[1].body.jokes) = q.resp[1].body.total_jokes

\* C5: GET / and GET /health never run the credential check; whatever the
\* header, /health is answered 200 with exactly {status: healthy, service:
\* Programming Joke Generator API} and / is answered 200 with its static
\* description; neither is ever answered 401 or 403.
C5_PublicRoutes ==
    \A q \in Requests : q.path \in {"/", "/health"} =>
        /\ \A i \in 1..Len(q.calls) : q.calls[i] # "verify_api_key"
        /\ q.auth = NotChecked
        /\ q.pc # "deps"
        /\ q.pc = "done" =>
              /\ Answered(q, 200)
              /\ q.path = "/health" =>
                    q.resp[1].body =
                        [status |-> "healthy",
                         service |-> "Programming Joke Generator API"]
              /\ q.path = "/" =>
                    /\ DOMAIN q.resp[1].body =
                           {"message", "endpoints", "authentication"}
                    /\ q.resp[1].body.message =
                           "Welcome to the Programming Joke Generator API!"
                    /\ DOMAIN q.resp[1].body.endpoints =
                           {"/joke", "/jokes", "/health", "/docs"}
                    /\ q.resp[1].body.authentication =
                           "Use X-API-Key header for protected endpoints"

\* A health check without a header and a root request with a wrong key.
C5_Witness ==
    \E q1, q2 \in Requests :
        /\ q1.path = "/health" /\ q1.header = None /\ Answered(q1, 200)
        /\ q2.path = "/" /\ q2.header # None /\ q2.header[1] # ""
        /\ q2.header[1] # API_KEY /\ Answered(q2, 200)

\* C6: whatever else is in flight, was answered before or comes after, two
\* requests with the same path and the same header get the same status and,
\* but for /joke, the same body; two /joke answers carry the same count and
\* each joke is an entry of the list the other request picked from.
C6_Independent ==
    \A q1, q2 \in Requests :
        (/\ q1.pc = "done" /\ q2.pc = "done"
         /\ q1.path = q2.path /\ q1.header = q2.header)
        => /\ Len(q1.resp) = 1 /\ Len(q2.resp) = 1
           /\ q1.resp[1].status = q2.resp[1].status
           /\ (q1.path # "/joke" \/ q1.resp[1].status # 200)
                  => q1.resp[1].body = q2.resp[1].body
           /\ (q1.path = "/joke" /\ q1.resp[1].status = 200)
                  => /\ q1.resp[1].body.total_jokes
                            = q2.resp[1].body.total_jokes
                     /\ q2.jokes # None
                     /\ q1.resp[1].body.joke \in Elements(q2.jokes[1])

\* Two requests with the same path and key are both answered, with
\* different jokes, while both are in flight.
C6_Witness ==
    \E q1, q2 \in Requests :
        /\ q1.path = "/joke" /\ q2.path = "/joke"
        /\ q1.header = q2.header
        /\ Answered(q1, 200) /\ Answered(q2, 200)
        /\ q1.resp[1].body.joke # q2.resp[1].body.joke

\* C7: every call of get_jokes returns the same fixed sequence, whatever
\* requests were answered before it and whatever is in flight.
C7_StoreFixed ==
    /\ get_jokes = JOKES
    /\ \A q \in Requests : q.jokes # None => q.jokes = Some(JOKES)
    /\ \A q1, q2 \in Requests :
          (q1.jokes # None /\ q2.jokes # None) => q1.jokes = q2.jokes

\* A call of get_jokes made by GET /jokes while a random pick has been
\* answered and not yet sent, after AUTH_KEY was changed.
C7_Witness ==
    \E q1, q2 \in Requests :
        /\ q1.path = "/joke" /\ Answered(q1, 200)
        /\ q2.path = "/jokes" /\ q2.jokes # None
        /\ environ # boot_environ

\* C8: the store always has at least one entry, and a GET /joke that passed
\* the check can take its step and is answered 200, never with an error
\* raised by the selection.
C8_NeverEmpty ==
    /\ Len(get_jokes) >= 1
    /\ \A q \in Requests : (q.path = "/joke" /\ Checked(q) /\ ~q.auth.raised) =>
          /\ q.pc = "handler" => ENABLED get_random_joke(q)
          /\ q.pc = "done" =>
                /\ Answered(q, 200)
                /\ q.jokes # None /\ Len(q.jokes[1]) >= 1

C8_Witness ==
    \E q \in Requests :
        /\ q.path = "/joke" /\ ~q.auth.raised
        /\ q.calls = <<"verify_api_key", "get_random_joke">>
        /\ Answered(q, 200)
        /\ q.resp[1].body.joke = JOKES[24]

\* The value AUTH_KEY had when the process started, or the default literal.
StartupSecret ==
    IF boot_environ = None THEN "your-secret-api-key-12345"
    ELSE boot_environ[1]

\* C9: the secret is the startup value of AUTH_KEY or the default literal,
\* no request and no later change of AUTH_KEY changes it, and every check
\* lets in exactly the non-empty header equal to that startup value.
C9_SecretFixed ==
    /\ API_KEY = StartupSecret
    /\ \A q \in Requests : Checked(q) =>
          /\ ~q.auth.raised => q.header = Some(StartupSecret)
          /\ (q.auth.raised /\ q.auth.status_code = 403) =>
                (q.header # None /\ q.header # Some(StartupSecret))
          /\ (q.auth.raised /\ q.auth.status_code = 401) =>
                q.header \in {None, Some("")}

\* AUTH_KEY was changed after startup; the startup key is let in and the
\* new value of AUTH_KEY is refused.
C9_Witness ==
    \E q1, q2 \in Requests :
        /\ environ \notin {None, Some(""), boot_environ}
        /\ Checked(q1) /\ q1.header = Some(StartupSecret) /\ ~q1.auth.raised
        /\ Checked(q2) /\ q2.header = environ /\ Answered(q2, 403)

\* Some step of app.py can be taken for request q.
CanStep(q) ==
    ENABLED (\/ Security_verify_api_key(q) \/ root(q) \/ get_random_joke(q)
             \/ get_all_jokes(q) \/ health_check(q))

\* C10: a request is answered once, with 200, 401 or 403; 401 and 403 come
\* only from /joke and /jokes and carry nothing but the detail; no function
\* runs twice for a request; a request not yet answered can take its step.
C10_Terminal ==
    \A q \in Requests :
        /\ Len(q.resp) = (IF q.pc = "done" THEN 1 ELSE 0)
        /\ q.pc \in {"deps", "handler"} => CanStep(q)
        /\ \A i, j \in 1..Len(q.calls) : q.calls[i] = q.calls[j] => i = j
        /\ q.pc = "done" =>
              /\ q.path \in Paths
              /\ q.resp[1].status \in {200, 401, 403}
              /\ q.resp[1].status \in {401, 403} =>
                    /\ q.path \in Protected
                    /\ DOMAIN q.resp[1].body = {"detail"}
                    /\ q.resp[1].body.detail \in
                           {MISSING_DETAIL, INVALID_DETAIL}
              /\ q.resp[1].status = 200 =>
                    "detail" \notin DOMAIN q.resp[1].body

C10_Witness ==
    \E q1, q2 \in Requests :
        /\ q1.path = "/jokes" /\ Answered(q1, 401)
        /\ q2.path = "/" /\ Answered(q2, 200)

====
